---- MODULE Spec2Model ----
(***************************************************************************)
(* FoodCircle server: the food-listing lifecycle, the featured ranking and *)
(* the available-foods search, as the route handlers of the repository's   *)
(* server files implement them over the MongoDB collection foodCollection. *)
(*                                                                         *)
(* The repository holds the same server in several files.  The variable    *)
(* `file` says which of them is running:                                   *)
(*   "index.js"  src/index.js (its second server, lines 185-456; the four  *)
(*               handlers of the first server, lines 65-172, are the same) *)
(*   "part_002"  src/unnamed/part_002                                      *)
(*   "part_000"  src/unnamed/part_000: the route handlers of part_002, and *)
(*               a start-up of its own (SpecStartup)                       *)
(*   "part_003"  src/unnamed/part_003                                      *)
(*                                                                         *)
(* JavaScript and BSON values are tagged records, texts are sequences of   *)
(* one-character strings, numbers are held in tenths (3.5 is 35), and a    *)
(* point in time is the integer yyyymmdd of its day.  The collection's     *)
(* operations are taken to succeed, but for an insert with an _id that is  *)
(* already stored and the store errors of the start-up: the other catch    *)
(* branches that answer 500 are taken only when the driver throws.         *)
(***************************************************************************)
EXTENDS Integers, Sequences, FiniteSets, TLC

VARIABLES file, foodCollection, requestCollection, boot, startup, issued, now, last

vars == <<file, foodCollection, requestCollection, boot, startup, issued, now, last>>

(***************************************************************************)
(* Bounds of the model.                                                    *)
(***************************************************************************)
MaxListings == 2      \* listings inserted in one behaviour of Spec
MaxCreated == 1       \* listings inserted in one behaviour of SpecCreate
MaxTicks == 1         \* days the clock advances in one behaviour
MaxStored == 7        \* listings of a store content the ranking is applied to
MaxFound == 2         \* listings of a store content the search is applied to
MaxUpdated == 1       \* listings inserted in one behaviour of SpecUpdate
MaxMine == 2          \* listings of a store content GET /myfoods is applied to
MaxRequests == 2      \* requests inserted in one behaviour of SpecRequests
MaxLegacy == 2        \* listings the collection holds when the server starts
MaxWaiting == 2       \* requests that await dbInitPromise at one time

(***************************************************************************)
(* Values.                                                                 *)
(***************************************************************************)
\* every value has a type tag t, a number n and a text s
Value(t, n, s) == [t |-> t, n |-> n, s |-> s]
Undefined == Value("undefined", 0, <<>>)
NaN == Value("nan", 0, <<>>)
InvalidDate == Value("invalid date", 0, <<>>)
Null == Value("null", 0, <<>>)
Num(tenths) == Value("number", tenths, <<>>)
Str(chars) == Value("string", 0, chars)
DateV(day) == Value("date", day, <<>>)
Tenths(whole, tenth) == whole * 10 + tenth

IsNumber(x) == x.t \in {"number", "nan"}
IsString(x) == x.t = "string"

Digits == <<"0", "1", "2", "3", "4", "5", "6", "7", "8", "9">>
HexLetters == {"a", "b", "c", "d", "e", "f", "A", "B", "C", "D", "E", "F"}
DigitSet == {Digits[i] : i \in 1..10}
DigitValue == [c \in DigitSet |-> (CHOOSE i \in 1..10 : Digits[i] = c) - 1]
IsDigit(c) == c \in DigitSet
DigitOf(c) == DigitValue[c]
AllDigits(s) == \A i \in 1..Len(s) : IsDigit(s[i])

RECURSIVE ParseUInt(_)
ParseUInt(s) ==
    IF s = <<>> THEN 0
    ELSE ParseUInt(SubSeq(s, 1, Len(s) - 1)) * 10 + DigitOf(s[Len(s)])

DotAt(s) == IF \E i \in 1..Len(s) : s[i] = "."
            THEN CHOOSE i \in 1..Len(s) : s[i] = "." /\ \A j \in 1..(i - 1) : s[j] # "."
            ELSE 0

\* A decimal numeral: digits, then optionally a point and digits.
IsDecimal(s) ==
    LET d == DotAt(s) IN
    IF d = 0 THEN s # <<>> /\ AllDigits(s)
    ELSE /\ d > 1 /\ d < Len(s)
         /\ AllDigits(SubSeq(s, 1, d - 1))
         /\ AllDigits(SubSeq(s, d + 1, Len(s)))

\* Its value in tenths (the first decimal is kept).
DecimalValue(s) ==
    LET d == DotAt(s) IN
    IF d = 0 THEN Tenths(ParseUInt(s), 0)
    ELSE Tenths(ParseUInt(SubSeq(s, 1, d - 1)), DigitOf(s[d + 1]))

RECURSIVE TrimSpaces(_)
TrimSpaces(s) ==
    IF s # <<>> /\ s[1] = " " THEN TrimSpaces(Tail(s))
    ELSE IF s # <<>> /\ s[Len(s)] = " " THEN TrimSpaces(SubSeq(s, 1, Len(s) - 1))
    ELSE s

(***************************************************************************)
(* JavaScript: truthiness, x || "", Number(x), new Date(x), isNaN(date).   *)
(***************************************************************************)
Truthy(x) ==
    /\ x.t \notin {"undefined", "nan"}
    /\ ~(x.t = "string" /\ x.s = <<>>)
    /\ ~(x.t = "number" /\ x.n = 0)

OrEmpty(x) == IF Truthy(x) THEN x ELSE Str(<<>>)

ToNumber(x) ==
    CASE x.t = "number" -> x
      [] x.t = "string" ->
            LET s == TrimSpaces(x.s) IN
            IF s = <<>> THEN Num(0)
            ELSE IF IsDecimal(s) THEN Num(DecimalValue(s))
            ELSE NaN
      [] OTHER -> NaN

\* The date texts the model reads: yyyy-mm-dd, alone or followed by T00:00:00.000Z.
MidnightZ == <<"T", "0", "0", ":", "0", "0", ":", "0", "0", ".", "0", "0", "0", "Z">>
IsDateText(s) ==
    /\ Len(s) >= 10
    /\ Len(s) > 10 => SubSeq(s, 11, Len(s)) = MidnightZ
    /\ s[5] = "-" /\ s[8] = "-"
    /\ AllDigits(SubSeq(s, 1, 4)) /\ AllDigits(SubSeq(s, 6, 7)) /\ AllDigits(SubSeq(s, 9, 10))
    /\ ParseUInt(SubSeq(s, 6, 7)) \in 1..12
    /\ ParseUInt(SubSeq(s, 9, 10)) \in 1..31

NewDate(x) ==
    CASE x.t = "date" -> x
      [] x.t = "string" /\ IsDateText(x.s) -> DateV(ParseUInt(SubSeq(x.s, 1, 4) \o SubSeq(x.s, 6, 7) \o SubSeq(x.s, 9, 10)))
      [] OTHER -> InvalidDate

IsNaNDate(d) == d.t = "invalid date"

(***************************************************************************)
(* Character order and case folding (strings compare by character code;   *)
(* the "i" option of $regex folds case).                                   *)
(***************************************************************************)
UpperLetters == <<"A", "B", "C", "D", "E", "F", "G", "H", "I", "J", "K", "L", "M",
                  "N", "O", "P", "Q", "R", "S", "T", "U", "V", "W", "X", "Y", "Z">>
LowerLetters == <<"a", "b", "c", "d", "e", "f", "g", "h", "i", "j", "k", "l", "m",
                  "n", "o", "p", "q", "r", "s", "t", "u", "v", "w", "x", "y", "z">>
CharOrder == <<" ", "-", ".">> \o Digits \o <<":", "@">> \o UpperLetters \o LowerLetters
CharCode == [c \in {CharOrder[i] : i \in 1..Len(CharOrder)} |->
                CHOOSE i \in 1..Len(CharOrder) : CharOrder[i] = c]
CodeOf(c) == CharCode[c]
LowerCase == [c \in {UpperLetters[i] : i \in 1..26} |->
                 LowerLetters[CHOOSE i \in 1..26 : UpperLetters[i] = c]]
Lower(c) == IF c \in DOMAIN LowerCase THEN LowerCase[c] ELSE c

\* s sorts before u: at the first difference s has the smaller code, or s is a proper prefix.
StringLess(s, u) ==
    \E i \in 1..(Len(u)) :
        /\ \A j \in 1..(i - 1) : j <= Len(s) /\ s[j] = u[j]
        /\ \/ i = Len(s) + 1
           \/ i <= Len(s) /\ CodeOf(s[i]) < CodeOf(u[i])

(***************************************************************************)
(* BSON: what the driver stores for a JavaScript value, and the order the  *)
(* server sorts stored values in (a missing field sorts as null; null <    *)
(* numbers < strings < ObjectId < dates; NaN is the least number).         *)
(***************************************************************************)
Epoch == DateV(19700101)
ToBSON(x) == IF x.t = "invalid date" THEN Epoch ELSE x

TypeRank(x) ==
    CASE x.t \in {"undefined", "null"} -> 1
      [] x.t \in {"number", "nan"} -> 2
      [] x.t = "string" -> 3
      [] x.t = "objectid" -> 4
      [] OTHER -> 5

BsonLess(a, b) ==
    IF TypeRank(a) # TypeRank(b) THEN TypeRank(a) < TypeRank(b)
    ELSE CASE a.t = "nan" -> b.t = "number"
           [] a.t = "number" -> b.t = "number" /\ a.n < b.n
           [] a.t = "string" -> StringLess(a.s, b.s)
           [] a.t = "objectid" -> StringLess(a.s, b.s)
           [] a.t = "date" -> a.n < b.n
           [] OTHER -> FALSE

(***************************************************************************)
(* JSON: what res.json sends for a stored value.                           *)
(***************************************************************************)
TwoDigits(n) == <<Digits[((n \div 10) % 10) + 1], Digits[(n % 10) + 1]>>
ToISOString(day) ==
    TwoDigits(day \div 1000000) \o TwoDigits((day \div 10000) % 100) \o <<"-">>
        \o TwoDigits((day \div 100) % 100) \o <<"-">> \o TwoDigits(day % 100) \o MidnightZ

ToJSON(x) ==
    CASE x.t = "date" -> Str(ToISOString(x.n))
      [] x.t = "objectid" -> Str(x.s)
      [] x.t = "nan" -> Null
      [] OTHER -> x

JsonDoc(doc) == [f \in DOMAIN doc |-> ToJSON(doc[f])]
JsonDocs(docs) == [i \in 1..Len(docs) |-> JsonDoc(docs[i])]

(***************************************************************************)
(* ObjectId: 24 hexadecimal characters.  The collection hands out          *)
(* NthObjectId(1), NthObjectId(2), ... and never NthObjectId(0).           *)
(***************************************************************************)
ObjectIdHexLen == 24
HexChars == DigitSet \cup HexLetters
IsHex(c) == c \in HexChars
\* fault variant: an id check that looks at the length only
ObjectIdIsValidLengthOnly(id) == Len(id) = ObjectIdHexLen
\* ObjectId.isValid on a route parameter: a text of 24 hex characters
ObjectIdIsValid(id) == Len(id) = ObjectIdHexLen /\ \A i \in 1..Len(id) : IsHex(id[i])
ObjectId(id) == Value("objectid", 0, [i \in 1..Len(id) |-> Lower(id[i])])
NthHex(n) == [i \in 1..ObjectIdHexLen |-> IF i = ObjectIdHexLen THEN Digits[n + 1] ELSE "0"]
NthObjectId(n) == ObjectId(NthHex(n))

(***************************************************************************)
(* The collection: a sequence of documents in natural (insertion) order.   *)
(* A document is a function from field names to values.                    *)
(***************************************************************************)
Field(doc, f) == IF f \in DOMAIN doc THEN doc[f] ELSE Null
Matching(coll, oid) == {i \in 1..Len(coll) : coll[i]["_id"] = oid}

\* the document, or <<>> for null
FindOne(coll, oid) ==
    IF Matching(coll, oid) = {} THEN <<>>
    ELSE coll[CHOOSE i \in Matching(coll, oid) : TRUE]

InsertOne(coll, doc, oid) == Append(coll, [f \in DOMAIN doc |-> ToBSON(doc[f])] @@ ("_id" :> oid))

\* $set: every field of the patch overwrites or adds that field.
SetFields(doc, patch) ==
    [f \in DOMAIN doc \cup DOMAIN patch |-> IF f \in DOMAIN patch THEN ToBSON(patch[f]) ELSE doc[f]]

UpdateOne(coll, oid, patch) ==
    LET hit == Matching(coll, oid)
        new == [i \in 1..Len(coll) |-> IF i \in hit THEN SetFields(coll[i], patch) ELSE coll[i]]
    IN [coll |-> new,
        matchedCount |-> Cardinality(hit),
        modifiedCount |-> Cardinality({i \in hit : new[i] # coll[i]})]

DeleteOne(coll, oid) ==
    [coll |-> SelectSeq(coll, LAMBDA d : d["_id"] # oid),
     deletedCount |-> Cardinality(Matching(coll, oid))]

\* sort: stable on the key, ascending or descending in BSON order.
SortDocs(docs, field, descending) ==
    LET n == Len(docs)
        KeyOf(d) == Field(d, field)
        Before(i, j) == IF descending THEN BsonLess(KeyOf(docs[j]), KeyOf(docs[i]))
                        ELSE BsonLess(KeyOf(docs[i]), KeyOf(docs[j]))
        Pos(i) == 1 + Cardinality({j \in 1..n : Before(j, i) \/ (~Before(i, j) /\ j < i)})
    IN [p \in 1..n |-> docs[CHOOSE i \in 1..n : Pos(i) = p]]

Limit(docs, n) == SubSeq(docs, 1, IF Len(docs) < n THEN Len(docs) ELSE n)

Project(doc, fields) == [f \in DOMAIN doc \cap (fields \cup {"_id"}) |-> doc[f]]

(***************************************************************************)
(* Texts of the program.                                                   *)
(***************************************************************************)
Available == Str(<<"A", "v", "a", "i", "l", "a", "b", "l", "e">>)
requested == Str(<<"r", "e", "q", "u", "e", "s", "t", "e", "d">>)
Empty == Str(<<>>)

RequiredFields == {"foodName", "quantity", "location", "expireAt", "userName", "userEmail"}
FeaturedFields == {"foodName", "foodImage", "quantity", "location", "note"}
FeaturedLimit == 6

(***************************************************************************)
(* The answer of a handler: the last call, its status and body, and the    *)
(* number of collection operations it performed.                           *)
(***************************************************************************)
Answer(op, req, status, out, dbCalls) ==
    [op |-> op, req |-> req, status |-> status, out |-> out, dbCalls |-> dbCalls]

NoCall == Answer("none", Null, 0, Null, 0)

(***************************************************************************)
(* Start-up.  boot.phase says how far the connection function has come:    *)
(*   "cold"        part_002: initDB has not been called yet                *)
(*   "connecting"  client.connect() is awaited                             *)
(*   "connected"   the collections are assigned, the cursor of the         *)
(*                 normalization pass has not fetched yet                  *)
(*   "normalizing" the pass walks boot.todo, the documents it fetched      *)
(*   "ready"       the pass has ended (boot.failed: by a store error)      *)
(*   "failed"      client.connect() has thrown                             *)
(***************************************************************************)
Boot(phase, todo, failed) == [phase |-> phase, todo |-> todo, failed |-> failed]
Started == Boot("ready", <<>>, FALSE)

(***************************************************************************)
(* startup counts what the start-up has done: the calls of                 *)
(* client.connect(), the normalization passes started, the rejections of   *)
(* client.connect(), the requests of part_002 whose middleware awaits      *)
(* dbInitPromise, and those of them that went on to their route handler.   *)
(* dbInitPromise itself is boot.phase: unset when "cold", fulfilled when   *)
(* "ready", rejected when "failed", pending otherwise.                     *)
(***************************************************************************)
Startup(connects, passes, failures, waiting, resumed) ==
    [connects |-> connects, passes |-> passes, failures |-> failures,
     waiting |-> waiting, resumed |-> resumed]
NoStartup == Startup(0, 0, 0, 0, 0)

\* both collection variables are assigned
CollectionsSet == boot.phase \in {"connected", "normalizing", "ready"}

\* initDB of part_002, called by the readiness middleware of the first
\* request: it creates dbInitPromise, which awaits client.connect()
\* fault variant: an initDB without the test of dbInitPromise, which
\* connects again for a request that arrives while the first connect is awaited
InitDBUnguarded ==
    /\ file = "part_002" /\ boot.phase \in {"cold", "connecting"}
    /\ startup.waiting < MaxWaiting
    /\ boot' = Boot("connecting", <<>>, FALSE)
    /\ startup' = [startup EXCEPT !.connects = @ + 1, !.waiting = @ + 1]
    /\ UNCHANGED <<requestCollection, file, foodCollection, issued, now, last>>

InitDB ==
    /\ file = "part_002" /\ boot.phase = "cold"
    /\ boot' = Boot("connecting", <<>>, FALSE)
    /\ startup' = [startup EXCEPT !.connects = @ + 1, !.waiting = @ + 1]
    /\ UNCHANGED <<requestCollection, file, foodCollection, issued, now, last>>

\* initDB of part_002 called for a further request while client.connect()
\* is awaited: dbInitPromise is set, and the middleware awaits it
AwaitInit ==
    /\ file = "part_002" /\ boot.phase = "connecting"
    /\ startup.waiting < MaxWaiting
    /\ startup' = [startup EXCEPT !.waiting = @ + 1]
    /\ UNCHANGED <<requestCollection, boot, file, foodCollection, issued, now, last>>

\* dbInitPromise is fulfilled: the middleware of a waiting request calls
\* next(), and the request goes on to its route handler
Resume ==
    /\ boot.phase = "ready" /\ startup.waiting > 0
    /\ startup' = [startup EXCEPT !.waiting = @ - 1, !.resumed = @ + 1]
    /\ UNCHANGED <<requestCollection, boot, file, foodCollection, issued, now, last>>

\* client.connect() resolves and the collections are assigned
\* and normalizeExpireAtField is called
Connect ==
    /\ boot.phase = "connecting"
    /\ boot' = Boot("connected", <<>>, FALSE)
    /\ startup' = [startup EXCEPT !.passes = @ + 1]
    /\ UNCHANGED <<requestCollection, file, foodCollection, issued, now, last>>

\* fault variant: a rejection that clears dbInitPromise, so that the next
\* request connects again
ConnectFailsRetry ==
    /\ boot.phase = "connecting"
    /\ boot' = Boot(IF file = "part_002" THEN "cold" ELSE "failed", <<>>, FALSE)
    /\ startup' = [startup EXCEPT !.failures = @ + 1]
    /\ UNCHANGED <<requestCollection, file, foodCollection, issued, now, last>>

\* client.connect() throws: run() of part_000 logs it, dbInitPromise of
\* part_002 is rejected for good
ConnectFails ==
    /\ boot.phase = "connecting"
    /\ boot' = Boot("failed", <<>>, FALSE)
    /\ startup' = [startup EXCEPT !.failures = @ + 1]
    /\ UNCHANGED <<requestCollection, file, foodCollection, issued, now, last>>

HasTextExpireAt(doc) == IsString(Field(doc, "expireAt"))

\* the cursor of find({ expireAt: { $type: "string" } }) fetches its batch
FetchLegacy ==
    /\ boot.phase = "connected"
    /\ LET found == SelectSeq(foodCollection, HasTextExpireAt)
       IN boot' = Boot(IF found = <<>> THEN "ready" ELSE "normalizing", found, FALSE)
    /\ UNCHANGED <<requestCollection, startup, file, foodCollection, issued, now, last>>

\* one turn of the for-await loop: the document is updated when its text parses
NormalizeNext ==
    /\ boot.phase = "normalizing" /\ boot.todo # <<>>
    /\ LET doc == Head(boot.todo)
           parsedDate == NewDate(doc.expireAt)
       IN foodCollection' =
              IF IsNaNDate(parsedDate) THEN foodCollection
              ELSE UpdateOne(foodCollection, doc["_id"], [expireAt |-> parsedDate]).coll
    /\ boot' = Boot(IF Tail(boot.todo) = <<>> THEN "ready" ELSE "normalizing", Tail(boot.todo), FALSE)
    /\ UNCHANGED <<requestCollection, startup, file, issued, now, last>>

\* fault variant: a store error of the pass that leaves the server not ready
NormalizeFailsNotReady ==
    /\ boot.phase \in {"connected", "normalizing"}
    /\ boot' = Boot("failed", <<>>, TRUE)
    /\ UNCHANGED <<requestCollection, startup, file, foodCollection, issued, now, last>>

\* the cursor or an updateOne of the pass throws: part_002 catches it in
\* normalizeExpireAtField, part_000 in run(); the pass ends there
NormalizeFails ==
    /\ boot.phase \in {"connected", "normalizing"}
    /\ boot' = Boot("ready", <<>>, TRUE)
    /\ UNCHANGED <<requestCollection, startup, file, foodCollection, issued, now, last>>

\* the readiness middleware lets a request through: foodCollection is
\* assigned (part_000), initDB returns at once or its promise is fulfilled
\* (part_002)
Admitted == CollectionsSet

\* the readiness middleware answers 503: foodCollection is not assigned
\* (part_000), dbInitPromise is rejected (part_002), for a request that
\* awaited it or for one that arrives later
NotReady ==
    /\ \/ file = "part_000" /\ boot.phase \in {"connecting", "failed"}
       \/ file = "part_002" /\ boot.phase = "failed"
    /\ \E w \in {startup.waiting, startup.waiting - 1} :
          w >= 0 /\ startup' = [startup EXCEPT !.waiting = w]
    /\ last' = Answer("notReady", Null, 503, Str(<<"S", "e", "r", "v", "e", "r", " ", "i", "s", " ", "n", "o", "t", " ", "r", "e", "a", "d", "y">>), 0)
    /\ UNCHANGED <<requestCollection, boot, file, foodCollection, issued, now>>

(***************************************************************************)
(* POST /foods                                                             *)
(***************************************************************************)
MissingRequired(body) == \E f \in RequiredFields : ~Truthy(body[f])

\* fault variant: a document that keeps quantity and expireAt as sent
NewFoodVerbatim(body, time) ==
    [foodName |-> body.foodName,
     foodImage |-> OrEmpty(body.foodImage),
     quantity |-> body.quantity,
     location |-> body.location,
     expireAt |-> body.expireAt,
     note |-> OrEmpty(body.note),
     donorName |-> body.userName,
     donorEmail |-> body.userEmail,
     donorImage |-> OrEmpty(body.userImage),
     foodStatus |-> Available,
     createdAt |-> DateV(time)]

NewFood(body, time) ==
    [foodName |-> body.foodName,
     foodImage |-> OrEmpty(body.foodImage),
     quantity |-> ToNumber(body.quantity),
     location |-> body.location,
     expireAt |-> NewDate(body.expireAt),
     note |-> OrEmpty(body.note),
     donorName |-> body.userName,
     donorEmail |-> body.userEmail,
     donorImage |-> OrEmpty(body.userImage),
     foodStatus |-> Available,
     createdAt |-> DateV(time)]

CreateListing(body) ==
    /\ IF MissingRequired(body)
       THEN /\ last' = Answer("createListing", body, 400, [error |-> "Missing required fields"], 0)
            /\ UNCHANGED <<foodCollection, issued>>
       ELSE /\ foodCollection' = InsertOne(foodCollection, NewFood(body, now), NthObjectId(issued + 1))
            /\ issued' = issued + 1
            /\ last' = Answer("createListing", body, 201, [insertedId |-> ToJSON(NthObjectId(issued + 1))], 1)
    /\ UNCHANGED <<requestCollection, boot, startup, file, now>>

(***************************************************************************)
(* GET /featured-foods                                                     *)
(***************************************************************************)
\* fault variant: a conversion without the onError and onNull fallbacks
ConvertToDoubleNoFallback(x) ==
    CASE x.t = "string" -> IF IsDecimal(x.s) THEN Num(DecimalValue(x.s)) ELSE NaN
      [] x.t \in {"number", "nan"} -> x
      [] x.t = "date" -> Num(Tenths(x.n, 0))
      [] OTHER -> Null

\* $convert to double with onError 0 and onNull 0
ConvertToDouble(x) ==
    CASE x.t = "string" -> IF IsDecimal(x.s) THEN Num(DecimalValue(x.s)) ELSE Num(0)
      [] x.t \in {"number", "nan"} -> x
      [] x.t = "date" -> Num(Tenths(x.n, 0))
      [] OTHER -> Num(0)

\* $cond: [ $isNumber: "$quantity", "$quantity", $convert ]
QuantityNumeric(doc) ==
    LET q == Field(doc, "quantity") IN
    IF IsNumber(q) THEN q ELSE ConvertToDouble(q)

IsAvailable(doc) == Field(doc, "foodStatus") = Available

AddQuantityNumeric(doc) == ("quantityNumeric" :> QuantityNumeric(doc)) @@ doc

\* $match, $addFields
AddFieldsStage(coll) ==
    LET matched == SelectSeq(coll, IsAvailable)
    IN [i \in 1..Len(matched) |-> AddQuantityNumeric(matched[i])]

\* $sort, $limit, $project
FeaturedAggregate(coll) ==
    LET sorted == SortDocs(AddFieldsStage(coll), "quantityNumeric", TRUE)
        top == Limit(sorted, FeaturedLimit)
    IN [i \in 1..Len(top) |-> Project(top[i], FeaturedFields)]

FeaturedFind(coll) ==
    Limit(SortDocs(SelectSeq(coll, IsAvailable), "quantity", TRUE), FeaturedLimit)

TopFoods(f, coll) == IF f \in {"part_000", "part_002"} THEN FeaturedAggregate(coll) ELSE FeaturedFind(coll)

GetFeatured ==
    /\ last' = Answer("getFeatured", Null, 200, JsonDocs(TopFoods(file, foodCollection)), 1)
    /\ UNCHANGED <<requestCollection, boot, startup, file, foodCollection, issued, now>>

(***************************************************************************)
(* GET /available-foods                                                    *)
(***************************************************************************)
\* $regex with option i, for patterns of literal characters and "." (any character)
RegexMatchesAt(pattern, text, i) ==
    /\ i + Len(pattern) - 1 <= Len(text)
    /\ \A k \in 1..Len(pattern) :
          pattern[k] = "." \/ Lower(pattern[k]) = Lower(text[i + k - 1])

RegexMatches(pattern, value) ==
    /\ value.t = "string"
    /\ \E i \in 1..(Len(value.s) + 1) : RegexMatchesAt(pattern, value.s, i)

AvailableQuery(search, doc) ==
    /\ IsAvailable(doc)
    /\ search # <<>> => RegexMatches(search, Field(doc, "foodName"))

AvailableFoods(coll, search, sort) ==
    LET found == SelectSeq(coll, LAMBDA d : AvailableQuery(search, d)) IN
    CASE sort = "asc" -> SortDocs(found, "expireAt", FALSE)
      [] sort = "desc" -> SortDocs(found, "expireAt", TRUE)
      [] OTHER -> found

ListAvailable(search, sort) ==
    /\ last' = Answer("listAvailable", [search |-> search, sort |-> sort], 200,
                      JsonDocs(AvailableFoods(foodCollection, search, sort)), 1)
    /\ UNCHANGED <<requestCollection, boot, startup, file, foodCollection, issued, now>>

(***************************************************************************)
(* GET /food/:id                                                           *)
(***************************************************************************)
FoodById(coll, id) ==
    IF ~ObjectIdIsValid(id) THEN [status |-> 400, out |-> [error |-> "Invalid food ID"], dbCalls |-> 0]
    ELSE LET food == FindOne(coll, ObjectId(id)) IN
         IF food = <<>> THEN [status |-> 404, out |-> [error |-> "Food item not found"], dbCalls |-> 1]
         ELSE [status |-> 200, out |-> JsonDoc(food), dbCalls |-> 1]

GetById(id) ==
    /\ LET r == FoodById(foodCollection, id) IN
       last' = Answer("getById", id, r.status, r.out, r.dbCalls)
    /\ UNCHANGED <<requestCollection, boot, startup, file, foodCollection, issued, now>>

(***************************************************************************)
(* PUT /foods/request/:id                                                  *)
(***************************************************************************)
\* fault variant: a mark that answers whether a listing matched
MarkRequestedMatched(id) ==
    /\ IF ~ObjectIdIsValid(id)
       THEN /\ last' = Answer("markRequested", id, 400, [error |-> "Invalid food ID"], 0)
            /\ UNCHANGED foodCollection
       ELSE LET result == UpdateOne(foodCollection, ObjectId(id), [foodStatus |-> requested]) IN
            /\ foodCollection' = result.coll
            /\ last' = Answer("markRequested", id, 200, [success |-> result.matchedCount > 0], 1)
    /\ UNCHANGED <<requestCollection, boot, startup, file, issued, now>>

MarkRequested(id) ==
    /\ IF ~ObjectIdIsValid(id)
       THEN /\ last' = Answer("markRequested", id, 400, [error |-> "Invalid food ID"], 0)
            /\ UNCHANGED foodCollection
       ELSE LET result == UpdateOne(foodCollection, ObjectId(id), [foodStatus |-> requested]) IN
            /\ foodCollection' = result.coll
            /\ last' = Answer("markRequested", id, 200, [success |-> result.modifiedCount > 0], 1)
    /\ UNCHANGED <<requestCollection, boot, startup, file, issued, now>>

(***************************************************************************)
(* POST /requests                                                          *)
(***************************************************************************)
\* fault variant: { createdAt: new Date(), ...requestData }
RequestDocPayloadLast(requestData, time) ==
    [f \in DOMAIN requestData \cup {"createdAt"} |->
        IF f \in DOMAIN requestData THEN requestData[f] ELSE DateV(time)]

\* { ...requestData, createdAt: new Date() }
RequestDoc(requestData, time) ==
    [f \in DOMAIN requestData \cup {"createdAt"} |->
        IF f = "createdAt" THEN DateV(time) ELSE requestData[f]]

\* the _id of the document, or the one the driver generates
RequestId(coll, doc) ==
    IF "_id" \in DOMAIN doc THEN doc["_id"] ELSE NthObjectId(Len(coll) + 1)

DuplicateKey(coll, oid) == \E i \in 1..Len(coll) : coll[i]["_id"] = oid

\* fault variant: a request that also marks the listing it names
CreateRequestAndMark(requestData) ==
    /\ LET doc == RequestDoc(requestData, now)
           oid == RequestId(requestCollection, doc)
           named == IF "foodId" \in DOMAIN requestData /\ ObjectIdIsValid(requestData.foodId.s)
                    THEN ObjectId(requestData.foodId.s) ELSE Null
       IN IF DuplicateKey(requestCollection, oid)
          THEN /\ last' = Answer("createRequest", requestData, 500, [error |-> "Failed to save request"], 1)
               /\ UNCHANGED <<requestCollection, foodCollection>>
          ELSE /\ requestCollection' = InsertOne(requestCollection, doc, oid)
               /\ foodCollection' = UpdateOne(foodCollection, named, [foodStatus |-> requested]).coll
               /\ last' = Answer("createRequest", requestData, 201, [insertedId |-> ToJSON(oid)], 1)
    /\ UNCHANGED <<boot, startup, file, issued, now>>

CreateRequest(requestData) ==
    /\ LET doc == RequestDoc(requestData, now)
           oid == RequestId(requestCollection, doc)
       IN IF DuplicateKey(requestCollection, oid)
          THEN /\ last' = Answer("createRequest", requestData, 500, [error |-> "Failed to save request"], 1)
               /\ UNCHANGED requestCollection
          ELSE /\ requestCollection' = InsertOne(requestCollection, doc, oid)
               /\ last' = Answer("createRequest", requestData, 201, [insertedId |-> ToJSON(oid)], 1)
    /\ UNCHANGED <<boot, startup, file, foodCollection, issued, now>>

(***************************************************************************)
(* GET /myfoods                                                            *)
(***************************************************************************)
\* fault variant: the listings of the donor, oldest first
MyFoodsOldestFirst(coll, email) ==
    SortDocs(SelectSeq(coll, LAMBDA d : Field(d, "donorEmail") = email), "createdAt", FALSE)

MyFoods(coll, email) ==
    SortDocs(SelectSeq(coll, LAMBDA d : Field(d, "donorEmail") = email), "createdAt", TRUE)

ListMine(email) ==
    /\ last' = IF ~Truthy(email)
               THEN Answer("listMine", email, 400, [error |-> "Email is required"], 0)
               ELSE Answer("listMine", email, 200, JsonDocs(MyFoods(foodCollection, email)), 1)
    /\ UNCHANGED <<requestCollection, boot, startup, file, foodCollection, issued, now>>

(***************************************************************************)
(* DELETE /food/:id                                                        *)
(***************************************************************************)
\* fault variant: a delete that does not look at deletedCount
DeleteListingNoCount(id) ==
    /\ IF ~ObjectIdIsValid(id)
       THEN /\ last' = Answer("deleteListing", id, 400, [error |-> "Invalid food ID"], 0)
            /\ UNCHANGED foodCollection
       ELSE LET result == DeleteOne(foodCollection, ObjectId(id)) IN
            /\ foodCollection' = result.coll
            /\ last' = Answer("deleteListing", id, 200, [success |-> TRUE], 1)
    /\ UNCHANGED <<requestCollection, boot, startup, file, issued, now>>

DeleteListing(id) ==
    /\ IF ~ObjectIdIsValid(id)
       THEN /\ last' = Answer("deleteListing", id, 400, [error |-> "Invalid food ID"], 0)
            /\ UNCHANGED foodCollection
       ELSE LET result == DeleteOne(foodCollection, ObjectId(id)) IN
            /\ foodCollection' = result.coll
            /\ last' = IF result.deletedCount = 0
                       THEN Answer("deleteListing", id, 404, [error |-> "Food item not found or already deleted"], 1)
                       ELSE Answer("deleteListing", id, 200, [success |-> TRUE], 1)
    /\ UNCHANGED <<requestCollection, boot, startup, file, issued, now>>

(***************************************************************************)
(* PUT /food/:id                                                           *)
(***************************************************************************)
\* part_003 parses a truthy expireAt of the body before the update
HasExpireAt(patch) == "expireAt" \in DOMAIN patch /\ Truthy(patch.expireAt)
WithParsedExpireAt(patch) ==
    IF HasExpireAt(patch) THEN [patch EXCEPT !.expireAt = NewDate(patch.expireAt)] ELSE patch

\* the count the handler answers 404 on when it is 0
UpdateCount(f, result) == IF f = "part_003" THEN result.modifiedCount ELSE result.matchedCount

NotUpdated(f) == IF f = "part_003" THEN "No document updated. It may not exist." ELSE "Food item not found"

UpdateListing(id, patch) ==
    /\ LET req == [id |-> id, patch |-> patch]
           updateData == IF file = "part_003" THEN WithParsedExpireAt(patch) ELSE patch
           result == UpdateOne(foodCollection, ObjectId(id), updateData)
       IN IF ~ObjectIdIsValid(id)
          THEN /\ last' = Answer("updateListing", req, 400, [error |-> "Invalid food ID"], 0)
               /\ UNCHANGED foodCollection
          ELSE IF file = "part_003" /\ HasExpireAt(patch) /\ IsNaNDate(updateData.expireAt)
          THEN /\ last' = Answer("updateListing", req, 400, [error |-> "Invalid expiration date format"], 0)
               /\ UNCHANGED foodCollection
          ELSE /\ foodCollection' = result.coll
               /\ last' = IF UpdateCount(file, result) = 0
                          THEN Answer("updateListing", req, 404, [error |-> NotUpdated(file)], 1)
                          ELSE Answer("updateListing", req, 200, [success |-> TRUE], 1)
    /\ UNCHANGED <<requestCollection, boot, startup, file, issued, now>>

(***************************************************************************)
(* The clock.                                                              *)
(***************************************************************************)
Days == [i \in 0..MaxTicks |-> 20250101 + i]

Tick ==
    /\ \E i \in 0..(MaxTicks - 1) : now = Days[i] /\ now' = Days[i + 1]
    /\ UNCHANGED <<requestCollection, boot, startup, file, foodCollection, issued, last>>

(***************************************************************************)
(* The calls the clients make.                                             *)
(***************************************************************************)
Files == {"index.js", "part_002", "part_003"}

Rice == <<"R", "i", "c", "e">>
Race == <<"r", "a", "c", "e">>
Dal == <<"D", "a", "l">>
Dhaka == <<"D", "h", "a", "k", "a">>
March1 == <<"2", "0", "2", "5", "-", "0", "3", "-", "0", "1">>
Feb1 == <<"2", "0", "2", "5", "-", "0", "2", "-", "0", "1">>
Soon == <<"s", "o", "o", "n">>
TwoKg == <<"2", " ", "k", "g">>
ThreeAndHalf == <<"3", ".", "5">>
MailA == <<"a", "@", "x">>
MailB == <<"b", "@", "x">>

\* a numeric quantity and no optional field
BodyA ==
    [foodName |-> Str(Rice), foodImage |-> Undefined, quantity |-> Num(Tenths(5, 0)),
     location |-> Str(Dhaka), expireAt |-> Str(March1), note |-> Undefined,
     userName |-> Str(<<"A">>), userEmail |-> Str(MailA), userImage |-> Undefined]

\* a numeric text as quantity, a full ISO date, every optional field
BodyB ==
    [foodName |-> Str(Race), foodImage |-> Str(<<"i">>), quantity |-> Str(ThreeAndHalf),
     location |-> Str(Dhaka), expireAt |-> Str(Feb1 \o MidnightZ), note |-> Str(<<"n">>),
     userName |-> Str(<<"B">>), userEmail |-> Str(MailB), userImage |-> Str(<<"u">>)]

\* a quantity and a date that do not parse
BodyC == [BodyA EXCEPT !.foodName = Str(Dal), !.quantity = Str(TwoKg), !.expireAt = Str(Soon)]

\* the number 0 as quantity
BodyZero == [BodyA EXCEPT !.quantity = Num(0)]

ValidBodies == {BodyA, BodyB, BodyC}

InvalidBodies ==
    {[BodyA EXCEPT ![f] = Undefined] : f \in RequiredFields}
        \cup {[BodyB EXCEPT ![f] = Empty] : f \in {"foodName", "quantity", "userEmail"}}

CreateBodies == ValidBodies \cup InvalidBodies \cup {BodyZero}

TooShort == <<"1", "2", "3">>
NotHex == [i \in 1..ObjectIdHexLen |-> "z"]
MalformedIds == {TooShort, NotHex}
WellFormedIds == {NthHex(n) : n \in 0..MaxListings}
IdParams == WellFormedIds \cup MalformedIds

Donated == Str(<<"d", "o", "n", "a", "t", "e", "d">>)
StatusPatch == [foodStatus |-> Donated]
Patches == {StatusPatch}

(***************************************************************************)
(* Spec: the listing lifecycle, from the server after start-up with an     *)
(* empty collection.                                                       *)
(***************************************************************************)
Init ==
    /\ file \in Files
    /\ foodCollection = <<>>
    /\ issued = 0
    /\ now = Days[0]
    /\ last = NoCall
    /\ requestCollection = <<>>
    /\ boot = Started
    /\ startup = NoStartup

Next ==
    \/ \E body \in {BodyA, BodyB, BodyZero} : issued < MaxListings /\ CreateListing(body)
    \/ ListAvailable(<<>>, "")
    \/ \E id \in IdParams : GetById(id)
    \/ \E id \in IdParams : MarkRequested(id)
    \/ \E id \in IdParams : DeleteListing(id)
    \/ \E id \in IdParams, patch \in Patches : UpdateListing(id, patch)

Spec == Init /\ [][Next]_vars

(***************************************************************************)
(* SpecCreate: listing creation with every kind of body, and the lookup of *)
(* what was stored.                                                        *)
(***************************************************************************)
CreateIdParams == {NthHex(n) : n \in 0..MaxCreated} \cup MalformedIds

NextCreate ==
    \/ \E body \in CreateBodies : issued < MaxCreated /\ CreateListing(body)
    \/ \E id \in CreateIdParams : GetById(id)
    \/ Tick

SpecCreate == Init /\ [][NextCreate]_vars

(***************************************************************************)
(* SpecUpdate: PUT /food/:id with the bodies a client can send, on the     *)
(* listings created in the same behaviour.                                 *)
(***************************************************************************)
ExpirePatch == [expireAt |-> Str(Feb1)]
BadExpirePatch == [expireAt |-> Str(Soon)]
EmptyExpirePatch == [expireAt |-> Empty]
SameStatusPatch == [foodStatus |-> Available]
CreatedAtPatch == [createdAt |-> Str(Feb1)]
NewFieldPatch == [note |-> Str(<<"n">>), tag |-> Num(Tenths(1, 0))]
UpdatePatches ==
    {StatusPatch, SameStatusPatch, ExpirePatch, BadExpirePatch, EmptyExpirePatch,
     CreatedAtPatch, NewFieldPatch}
UpdateIds == {NthHex(n) : n \in 0..MaxUpdated} \cup {NotHex}

NextUpdate ==
    \/ \E body \in {BodyA, BodyC} : issued < MaxUpdated /\ CreateListing(body)
    \/ \E id \in UpdateIds, patch \in UpdatePatches : UpdateListing(id, patch)
    \/ \E id \in UpdateIds : MarkRequested(id)
    \/ \E id \in UpdateIds : GetById(id)

SpecUpdate == Init /\ [][NextUpdate]_vars

(***************************************************************************)
(* SpecFeatured: the ranking applied to a collection that holds listings   *)
(* written by earlier versions and by PUT /food/:id, whose quantity is a   *)
(* number, a text, NaN (Number("2 kg")) or missing.                        *)
(***************************************************************************)
QuantityKinds ==
    <<Num(Tenths(5, 0)), Str(<<"3">>), Str(ThreeAndHalf), Str(TwoKg),
      Undefined, Str(<<"0", "3">>), NaN, Num(Tenths(2, 0))>>

Without(doc, f) == [g \in DOMAIN doc \ {f} |-> doc[g]]

StoredFood(n, body, status, time) ==
    InsertOne(<<>>, [NewFood(body, time) EXCEPT !.foodStatus = status], NthObjectId(n))[1]

LegacyFood(n, quantity, status) ==
    LET doc == StoredFood(n, BodyA, status, Days[0])
    IN IF quantity = Undefined THEN Without(doc, "quantity")
       ELSE [doc EXCEPT !.quantity = quantity]

\* every k-th listing is requested (k = 0: none)
StatusAt(i, k) == IF k > 0 /\ i % k = 0 THEN requested ELSE Available

InitFeatured ==
    /\ file \in Files
    /\ \E n \in 0..MaxStored, start \in 0..7, stride \in {1, 3}, k \in {0, 2, 3} :
          foodCollection =
              [i \in 1..n |-> LegacyFood(i, QuantityKinds[((start + i * stride) % 8) + 1], StatusAt(i, k))]
    /\ issued = Len(foodCollection)
    /\ now = Days[0]
    /\ last = NoCall
    /\ requestCollection = <<>>
    /\ boot = Started
    /\ startup = NoStartup

NextFeatured == GetFeatured

SpecFeatured == InitFeatured /\ [][NextFeatured]_vars

(***************************************************************************)
(* SpecSearch: the search applied to a collection of created listings,     *)
(* some of them requested.                                                 *)
(***************************************************************************)
Searches ==
    {<<>>, <<"r", "i", "c", "e">>, <<"R", "I">>, <<"a">>, <<"c", "e">>, <<"r", ".", "c", "e">>}
Sorts == {"", "asc", "desc"}

InitSearch ==
    /\ file \in Files
    /\ \E n \in 0..MaxFound, k \in {0, 2} :
          \E bodies \in [1..n -> ValidBodies] :
              foodCollection = [i \in 1..n |-> StoredFood(i, bodies[i], StatusAt(i, k), Days[0])]
    /\ issued = Len(foodCollection)
    /\ now = Days[0]
    /\ last = NoCall
    /\ requestCollection = <<>>
    /\ boot = Started
    /\ startup = NoStartup

NextSearch == \E search \in Searches, sort \in Sorts : ListAvailable(search, sort)

SpecSearch == InitSearch /\ [][NextSearch]_vars

(***************************************************************************)
(* SpecRequests: POST /requests with the bodies a client can send, beside  *)
(* the creation, the marking and the browsing of a listing.                *)
(***************************************************************************)
RequestA == [foodId |-> Str(NthHex(1)), userEmail |-> Str(MailB), note |-> Str(<<"n">>)]
RequestBare == [f \in {} |-> Null]
RequestStamped == [foodId |-> Str(NthHex(1)), createdAt |-> Str(Feb1)]
RequestKeyed == [_id |-> Str(<<"r">>), foodId |-> Str(NthHex(1))]
RequestBodies == {RequestA, RequestBare, RequestStamped, RequestKeyed}

NextRequests ==
    \/ issued < MaxCreated /\ CreateListing(BodyA)
    \/ \E requestData \in RequestBodies :
          Len(requestCollection) < MaxRequests /\ CreateRequest(requestData)
    \/ MarkRequested(NthHex(1))
    \/ ListAvailable(<<>>, "")
    \/ Tick

SpecRequests == Init /\ [][NextRequests]_vars

(***************************************************************************)
(* SpecStartup: part_000 and part_002 start on a collection that holds     *)
(* listings of earlier versions, whose expireAt is a text that parses, a   *)
(* text that does not, or a timestamp, while requests arrive.              *)
(***************************************************************************)
ExpireKinds == {Str(Feb1), Str(Soon), DateV(20250301)}
StartupFiles == {"part_000", "part_002"}

InitStartup ==
    /\ file \in StartupFiles
    /\ \E n \in 0..MaxLegacy : \E kinds \in [1..n -> ExpireKinds] :
          foodCollection =
              [i \in 1..n |-> [StoredFood(i, BodyA, Available, Days[0]) EXCEPT !.expireAt = kinds[i]]]
    /\ issued = Len(foodCollection)
    /\ now = Days[0]
    /\ last = NoCall
    /\ requestCollection = <<>>
    /\ boot = IF file = "part_000" THEN Boot("connecting", <<>>, FALSE) ELSE Boot("cold", <<>>, FALSE)
    /\ startup = IF file = "part_000" THEN Startup(1, 0, 0, 0, 0) ELSE NoStartup

NextStartup ==
    \/ InitDB
    \/ AwaitInit
    \/ Resume
    \/ Connect
    \/ ConnectFails
    \/ FetchLegacy
    \/ NormalizeNext
    \/ NormalizeFails
    \/ NotReady
    \/ \E sort \in Sorts : Admitted /\ ListAvailable(<<>>, sort)

SpecStartup == InitStartup /\ [][NextStartup]_vars

(***************************************************************************)
(* SpecMine: GET /myfoods on a collection of listings of two donors,       *)
(* created on any days and some of them requested.                         *)
(***************************************************************************)
Emails == {Undefined, Empty, Str(MailA), Str(MailB), Str(<<"c", "@", "x">>), Str(<<"A", "@", "X">>)}

InitMine ==
    /\ file \in Files
    /\ \E n \in 0..MaxMine, k \in {0, 2} :
          \E bodies \in [1..n -> {BodyA, BodyB}], days \in [1..n -> 0..MaxTicks] :
              foodCollection =
                  [i \in 1..n |-> StoredFood(i, bodies[i], StatusAt(i, k), Days[days[i]])]
    /\ issued = Len(foodCollection)
    /\ now = Days[MaxTicks]
    /\ last = NoCall
    /\ requestCollection = <<>>
    /\ boot = Started
    /\ startup = NoStartup

NextMine == \E email \in Emails : ListMine(email)

SpecMine == InitMine /\ [][NextMine]_vars

(***************************************************************************)
(* Properties.                                                             *)
(***************************************************************************)
Stored == {foodCollection[i] : i \in 1..Len(foodCollection)}
StoredAs(json) == FindOne(foodCollection, ObjectId(json["_id"].s))
Returned(out) == {out[i]["_id"] : i \in 1..Len(out)}
PresentNonEmpty(x) == x.t # "undefined" /\ x # Empty
AllRequiredPresent(body) == \A f \in RequiredFields : PresentNonEmpty(body[f])

\* C1: after any sequence of createListing, markRequested, updateListing and
\* deleteListing calls every stored listing has foodStatus Available or
\* requested, and listAvailable without search text returns a listing
\* exactly when its foodStatus is Available.
C1_StatusIsAvailableOrRequested ==
    /\ \A doc \in Stored : Field(doc, "foodStatus") \in {Available, requested}
    /\ (last.op = "listAvailable" /\ last.req.search = <<>>) =>
           Returned(last.out) = {ToJSON(doc["_id"]) : doc \in {d \in Stored : Field(d, "foodStatus") = Available}}

\* C2: every createListing call whose six required fields are all present
\* and non-empty answers 201 with the new identifier, and the listing stored
\* under it has foodStatus Available and createdAt equal to the time of the call.
C2_ValidCreateStoresAvailable ==
    [][\A body \in CreateBodies :
          (CreateListing(body) /\ AllRequiredPresent(body)) =>
              /\ last'.status = 201
              /\ LET doc == FindOne(foodCollection', ObjectId(last'.out.insertedId.s))
                 IN /\ doc # <<>>
                    /\ doc.foodStatus = Available
                    /\ doc.createdAt = DateV(now)]_vars

\* C3: createListing answers 400 and leaves the collection unchanged exactly
\* when one of the six required fields is absent or empty; when all six are
\* present and non-empty (any supplied number as quantity included) the
\* listing is inserted.
C3_RejectedExactlyWhenMissing ==
    [][\A body \in CreateBodies :
          CreateListing(body) =>
              IF AllRequiredPresent(body)
              THEN last'.status # 400 /\ Len(foodCollection') = Len(foodCollection) + 1
              ELSE last'.status = 400 /\ foodCollection' = foodCollection]_vars

\* C4: getById, updateListing, deleteListing and markRequested answer a
\* malformed identifier with 400, perform no operation on the collection and
\* leave it unchanged.
C4_MalformedIdRejected ==
    [][\A id \in MalformedIds :
          (GetById(id) \/ MarkRequested(id) \/ DeleteListing(id)
              \/ \E patch \in Patches : UpdateListing(id, patch)) =>
              /\ last'.status = 400
              /\ last'.dbCalls = 0
              /\ foodCollection' = foodCollection]_vars

C4_Witness ==
    /\ last.op \in {"getById", "markRequested", "deleteListing"}
    /\ last.req \in MalformedIds
    /\ last.status = 400
    /\ foodCollection # <<>>

\* the order of normalized quantities, and the literal search of the claims
NormLess(a, b) == BsonLess(QuantityNumeric(a), QuantityNumeric(b))
ContainsIgnoringCase(text, sub) ==
    \E i \in 1..(Len(text) + 1) :
        /\ i + Len(sub) - 1 <= Len(text)
        /\ \A k \in 1..Len(sub) : Lower(sub[k]) = Lower(text[i + k - 1])

\* C5: getFeatured returns at most 6 listings, all Available, in descending
\* order of normalized quantity, and no Available listing left out has a
\* strictly larger normalized quantity than one returned.
C5_FeaturedRanking ==
    last.op = "getFeatured" =>
        LET out == last.out
            top == [i \in 1..Len(out) |-> StoredAs(out[i])]
            leftOut == {d \in Stored : IsAvailable(d) /\ ToJSON(d["_id"]) \notin Returned(out)}
        IN /\ Len(out) <= 6
           /\ \A i \in 1..Len(out) : IsAvailable(top[i])
           /\ \A i, j \in 1..Len(out) : i < j => ~NormLess(top[i], top[j])
           /\ \A i \in 1..Len(out) : \A d \in leftOut : ~NormLess(top[i], d)

\* C6 as claimed: every listing getFeatured returns carries only foodName,
\* foodImage, quantity, location and note, without the identifier and the
\* donor fields, and its quantity is the stored original value.
C6_Original ==
    (last.op = "getFeatured" /\ file = "part_002") =>
        \A i \in 1..Len(last.out) : DOMAIN last.out[i] \subseteq FeaturedFields

\* C6 as amended: every listing getFeatured returns carries the identifier
\* _id and, of foodName, foodImage, quantity, location and note, those the
\* stored listing has, and nothing else (no donor field, no status, no
\* date, no derived quantityNumeric); its quantity is the stored original value.
C6_FeaturedProjection ==
    (last.op = "getFeatured" /\ file = "part_002") =>
        \A i \in 1..Len(last.out) :
            LET shown == last.out[i]
                doc == StoredAs(shown)
            IN /\ "_id" \in DOMAIN shown
               /\ doc \in Stored
               /\ DOMAIN shown = {"_id"} \cup (FeaturedFields \cap DOMAIN doc)
               /\ \A f \in DOMAIN shown : shown[f] = ToJSON(doc[f])

C6_Witness ==
    /\ last.op = "getFeatured" /\ file = "part_002"
    /\ \E i \in 1..Len(last.out) : last.out[i].quantity = Str(TwoKg)
    /\ \E i \in 1..Len(last.out) : "quantity" \notin DOMAIN last.out[i]

\* C7: the quantity normalizer of the ranking keeps a number, parses a
\* numeric text, and gives 0 for any other text and for a missing quantity:
\* normalize(5) = 5, normalize("3") = 3, normalize("3.5") = 3.5,
\* normalize("2 kg") = 0, normalize(undefined) = 0.
C7_QuantityNormalizer ==
    (last.op = "getFeatured" /\ file = "part_002") =>
        LET added == AddFieldsStage(foodCollection) IN
        \A i \in 1..Len(added) :
            LET q == Field(added[i], "quantity")
                k == added[i]["quantityNumeric"]
            IN /\ IsNumber(k)
               /\ IsNumber(q) => k = q
               /\ q = Num(Tenths(5, 0)) => k = Num(Tenths(5, 0))
               /\ q = Str(<<"3">>) => k = Num(Tenths(3, 0))
               /\ q = Str(<<"0", "3">>) => k = Num(Tenths(3, 0))
               /\ q = Str(<<"3", ".", "5">>) => k = Num(Tenths(3, 5))
               /\ q = Str(<<"2", " ", "k", "g">>) => k = Num(0)
               /\ "quantity" \notin DOMAIN added[i] => k = Num(0)

C7_Witness ==
    /\ last.op = "getFeatured" /\ file = "part_002"
    /\ \E d \in Stored : IsAvailable(d) /\ Field(d, "quantity") = Str(TwoKg)
    /\ \E d \in Stored : IsAvailable(d) /\ Field(d, "quantity") = Str(ThreeAndHalf)
    /\ \E d \in Stored : IsAvailable(d) /\ "quantity" \notin DOMAIN d

\* C8: listAvailable(searchText) returns exactly the Available listings
\* whose foodName contains searchText as a literal substring, compared
\* case-insensitively.
C8_LiteralSearch ==
    (last.op = "listAvailable" /\ last.req.search # <<>>) =>
        Returned(last.out) =
            {ToJSON(d["_id"]) : d \in {e \in Stored :
                /\ IsAvailable(e)
                /\ ContainsIgnoringCase(Field(e, "foodName").s, last.req.search)}}

\* getById(id) is called right after the createListing call that answered id
LooksUpCreated(id) ==
    /\ last.op = "createListing" /\ last.status = 201
    /\ last.out.insertedId = Str(id)
    /\ GetById(id)

Supplied(x) == x.t # "undefined"
ListingFields ==
    {"_id", "foodName", "foodImage", "quantity", "location", "expireAt", "note",
     "donorName", "donorEmail", "donorImage", "foodStatus", "createdAt"}

\* C9 as claimed: after a successful createListing(fields), getById on the
\* returned identifier returns a document equal to the input on every input
\* field (foodName, foodImage, quantity, location, expireAt, note, donor
\* name, email and image), plus the generated identifier, foodStatus and
\* createdAt.
C9_Original ==
    [][\A id \in CreateIdParams :
          LooksUpCreated(id) =>
              LET body == last.req
                  doc == last'.out
              IN /\ last'.status = 200
                 /\ doc.foodName = body.foodName
                 /\ doc.quantity = body.quantity
                 /\ doc.location = body.location
                 /\ doc.expireAt = body.expireAt
                 /\ doc.donorName = body.userName
                 /\ doc.donorEmail = body.userEmail
                 /\ Supplied(body.foodImage) => doc.foodImage = body.foodImage
                 /\ Supplied(body.note) => doc.note = body.note
                 /\ Supplied(body.userImage) => doc.donorImage = body.userImage
                 /\ {"_id", "foodStatus", "createdAt"} \subseteq DOMAIN doc]_vars

\* C9 as amended: after a successful createListing(fields), getById on the
\* returned identifier returns a document with foodName and location equal
\* to the input, donorName and donorEmail equal to the input's userName and
\* userEmail, foodImage, note and donorImage equal to the input's foodImage,
\* note and userImage, or "" where that is absent or empty, quantity the
\* input converted to a number (null when it is a text that is no number),
\* expireAt the time the input text parses to, as an ISO date-time text (not
\* the input text itself when that does not parse), plus the generated
\* identifier, foodStatus Available and createdAt.
C9_RoundTrip ==
    [][\A id \in CreateIdParams :
          LooksUpCreated(id) =>
              LET body == last.req
                  doc == last'.out
              IN /\ last'.status = 200
                 /\ DOMAIN doc = ListingFields
                 /\ doc.foodName = body.foodName
                 /\ doc.location = body.location
                 /\ doc.donorName = body.userName
                 /\ doc.donorEmail = body.userEmail
                 /\ doc.foodImage = (IF PresentNonEmpty(body.foodImage) THEN body.foodImage ELSE Empty)
                 /\ doc.note = (IF PresentNonEmpty(body.note) THEN body.note ELSE Empty)
                 /\ doc.donorImage = (IF PresentNonEmpty(body.userImage) THEN body.userImage ELSE Empty)
                 /\ doc.quantity = ToJSON(ToNumber(body.quantity))
                 /\ doc.expireAt.t = "string" /\ IsDateText(doc.expireAt.s)
                 /\ IF IsDateText(body.expireAt.s)
                    THEN doc.expireAt.s = SubSeq(body.expireAt.s, 1, 10) \o MidnightZ
                    ELSE doc.expireAt # body.expireAt
                 /\ doc["_id"] = Str(id)
                 /\ doc.foodStatus = Available
                 /\ \E i \in 0..MaxTicks : doc.createdAt = Str(ToISOString(Days[i]))]_vars

C9_Witness ==
    /\ last.op = "getById" /\ last.status = 200
    /\ last.out.quantity = Num(Tenths(3, 5))
    /\ last.out.donorImage = Str(<<"u">>)

\* C10: deleteListing on a well-formed id with no stored listing answers
\* 404 and changes nothing; for an existing listing the first deleteListing
\* removes it and answers success, and a second deleteListing of the same
\* id right after answers 404.
C10_DeleteTwice ==
    [][\A id \in WellFormedIds :
          DeleteListing(id) =>
              LET was == {d \in Stored : d["_id"] = ObjectId(id)}
                  kept == {foodCollection'[i] : i \in 1..Len(foodCollection')}
              IN /\ was = {} => last'.status = 404 /\ foodCollection' = foodCollection
                 /\ was # {} =>
                       /\ last'.status = 200 /\ last'.out = [success |-> TRUE]
                       /\ kept = Stored \ was
                       /\ Len(foodCollection') = Len(foodCollection) - 1
                 /\ (last.op = "deleteListing" /\ last.status = 200 /\ last.req = id) =>
                       last'.status = 404]_vars

C10_Witness ==
    /\ last.op = "deleteListing" /\ last.status = 404
    /\ last.req = NthHex(1)
    /\ issued >= 1

WithId(coll, id) == {coll[i] : i \in Matching(coll, ObjectId(id))}

\* C11: markRequested(id) with a well-formed id answers 200 with a boolean
\* that is true exactly when a listing with that id existed with a
\* foodStatus other than requested; after the call an existing listing with
\* that id is requested, so a further markRequested on it answers false:
\* of the markRequested calls on one Available listing exactly one
\* answers true.
C11_MarkRequestedOnce ==
    [][\A id \in WellFormedIds :
          MarkRequested(id) =>
              /\ last'.status = 200
              /\ last'.out.success \in BOOLEAN
              /\ last'.out.success
                    <=> \E d \in WithId(foodCollection, id) : Field(d, "foodStatus") # requested
              /\ \A d \in WithId(foodCollection', id) : d.foodStatus = requested
              /\ Len(foodCollection') = Len(foodCollection)
              /\ (last.op = "markRequested" /\ last.req = id) => ~last'.out.success]_vars

C11_Witness ==
    /\ last.op = "markRequested" /\ last.status = 200
    /\ last.out.success = FALSE
    /\ WithId(foodCollection, last.req) # {}

Parses(x) == ~IsNaNDate(NewDate(x))

\* C12: updateListing with a patch that contains an expireAt stores the
\* timestamp it parses to, and answers 400 and leaves the listing unchanged
\* when the value does not parse as a date.
C12_ExpireAtParsed ==
    [][\A id \in UpdateIds, patch \in UpdatePatches :
          (ObjectIdIsValid(id) /\ "expireAt" \in DOMAIN patch /\ UpdateListing(id, patch)) =>
              IF Parses(patch.expireAt)
              THEN \A d \in WithId(foodCollection', id) : d.expireAt = NewDate(patch.expireAt)
              ELSE last'.status = 400 /\ foodCollection' = foodCollection]_vars

\* the listing overwritten field by field with the patch; an expireAt of the
\* patch may be stored as sent or as the timestamp it parses to
Merged(new, old, patch) ==
    /\ DOMAIN new = DOMAIN old \cup DOMAIN patch
    /\ \A f \in DOMAIN new \ DOMAIN patch : new[f] = old[f]
    /\ \A f \in DOMAIN patch :
          \/ new[f] = patch[f]
          \/ f = "expireAt" /\ new[f] = NewDate(patch[f])

\* C13: updateListing with a well-formed id answers 404 when no listing has
\* that id; for an existing listing it answers success and leaves the
\* listing equal to the old one overwritten field by field with the patch,
\* the other fields and listings unchanged, also when the patch changes no
\* value.
C13_ShallowMerge ==
    [][\A id \in UpdateIds, patch \in UpdatePatches :
          (ObjectIdIsValid(id) /\ UpdateListing(id, patch)
              /\ ("expireAt" \in DOMAIN patch => Parses(patch.expireAt))) =>
              IF WithId(foodCollection, id) = {}
              THEN last'.status = 404 /\ foodCollection' = foodCollection
              ELSE /\ last'.status = 200
                   /\ Len(foodCollection') = Len(foodCollection)
                   /\ \A i \in 1..Len(foodCollection) :
                         IF foodCollection[i]["_id"] = ObjectId(id)
                         THEN Merged(foodCollection'[i], foodCollection[i], patch)
                         ELSE foodCollection'[i] = foodCollection[i]]_vars

\* C14: from a store without a text expireAt, after any sequence of
\* createListing and updateListing calls every stored listing's expireAt is
\* a timestamp, never a text.
C14_ExpireAtIsTimestamp ==
    \A d \in Stored : "expireAt" \in DOMAIN d => d.expireAt.t = "date"

\* C15: createdAt is set once by createListing: no markRequested,
\* updateListing or read changes the createdAt of an existing listing.
C15_CreatedAtImmutable ==
    [][\A i \in 1..Len(foodCollection) :
          /\ i <= Len(foodCollection')
          /\ foodCollection'[i]["_id"] = foodCollection[i]["_id"]
          /\ foodCollection'[i].createdAt = foodCollection[i].createdAt]_vars

\* C16: listMine(email) with a non-empty email returns exactly the listings
\* whose donorEmail equals email, whatever their foodStatus, newest first by
\* createdAt; with an absent or empty email it answers 400 and reads nothing.
C16_ListMine ==
    [][\A email \in Emails :
          ListMine(email) =>
              IF ~PresentNonEmpty(email)
              THEN last'.status = 400 /\ last'.dbCalls = 0
              ELSE LET out == last'.out IN
                   /\ last'.status = 200
                   /\ Returned(out) = {ToJSON(d["_id"]) : d \in {e \in Stored : e.donorEmail = email}}
                   /\ Len(out) = Cardinality(Returned(out))
                   /\ \A i \in 1..Len(out) : out[i] = JsonDoc(StoredAs(out[i]))
                   /\ \A i, j \in 1..Len(out) :
                         i < j => StoredAs(out[i]).createdAt.n >= StoredAs(out[j]).createdAt.n]_vars

C16_Witness ==
    /\ last.op = "listMine" /\ last.status = 200
    /\ Len(last.out) = 2
    /\ StoredAs(last.out[1]) = foodCollection[2]
    /\ foodCollection[2].createdAt.n > foodCollection[1].createdAt.n
    /\ foodCollection[2].foodStatus = requested
    /\ foodCollection[1].foodStatus = Available

OwnKeyStored(requestData) ==
    "_id" \in DOMAIN requestData /\ DuplicateKey(requestCollection, requestData["_id"])
Newest(coll) == coll[Len(coll)]

\* C17 as claimed: createRequest stores a request that equals the caller's
\* payload on every field the payload supplies, adds createdAt = time of
\* the call, enforces no required field, and answers 201 with the new
\* identifier.
C17_Original ==
    [][\A requestData \in RequestBodies :
          CreateRequest(requestData) =>
              /\ last'.status = 201
              /\ Len(requestCollection') = Len(requestCollection) + 1
              /\ LET doc == Newest(requestCollection') IN
                 /\ \A f \in DOMAIN requestData : doc[f] = requestData[f]
                 /\ doc.createdAt = DateV(now)
                 /\ last'.out.insertedId = ToJSON(doc["_id"])]_vars

\* C17 as amended: createRequest stores a request that equals the caller's
\* payload on every field the payload supplies other than createdAt, sets
\* createdAt = time of the call (in place of a createdAt of the payload),
\* enforces no required field, and answers 201 with the new identifier (the
\* payload's own _id when it has one); only a payload whose own _id is
\* already stored is answered 500, and nothing is stored.
C17_RequestStored ==
    [][\A requestData \in RequestBodies :
          CreateRequest(requestData) =>
              IF OwnKeyStored(requestData)
              THEN last'.status = 500 /\ requestCollection' = requestCollection
              ELSE /\ last'.status = 201
                   /\ Len(requestCollection') = Len(requestCollection) + 1
                   /\ SubSeq(requestCollection', 1, Len(requestCollection)) = requestCollection
                   /\ LET doc == Newest(requestCollection') IN
                      /\ DOMAIN doc = DOMAIN requestData \cup {"_id", "createdAt"}
                      /\ \A f \in DOMAIN requestData \ {"createdAt"} : doc[f] = requestData[f]
                      /\ doc.createdAt = DateV(now)
                      /\ ~DuplicateKey(requestCollection, doc["_id"])
                      /\ last'.out = [insertedId |-> ToJSON(doc["_id"])]]_vars

C17_Witness ==
    /\ last.op = "createRequest" /\ last.status = 201
    /\ last.req = RequestStamped
    /\ now = Days[1]
    /\ Newest(requestCollection).createdAt = DateV(Days[1])
    /\ Len(requestCollection) = 2

\* C18: createRequest leaves the listing store unchanged and succeeds
\* whether or not a listing with the referenced id exists; the referenced
\* listing stays Available and in the listAvailable result after any number
\* of createRequest calls, until markRequested is called.
C18_RequestLeavesListings ==
    [][\A requestData \in RequestBodies :
          CreateRequest(requestData) =>
              /\ foodCollection' = foodCollection
              /\ AvailableFoods(foodCollection', <<>>, "") = AvailableFoods(foodCollection, <<>>, "")
              /\ \A d \in WithId(foodCollection, NthHex(1)) :
                    d.foodStatus = Available =>
                        \E i \in 1..Len(AvailableFoods(foodCollection', <<>>, "")) :
                            AvailableFoods(foodCollection', <<>>, "")[i] = d
              /\ "_id" \notin DOMAIN requestData => last'.status = 201]_vars

\* a request that was stored before the listing it names was created, and
\* one stored after it
C18_Witness ==
    /\ last.op = "createRequest" /\ last.status = 201
    /\ last.req = RequestA
    /\ Len(requestCollection) = 2
    /\ "foodId" \in DOMAIN requestCollection[1]
    /\ requestCollection[1].foodId = Str(NthHex(1))
    /\ \E d \in WithId(foodCollection, NthHex(1)) :
          /\ d.foodStatus = Available
          /\ requestCollection[1].createdAt.n < d.createdAt.n

ParsableText(doc) == HasTextExpireAt(doc) /\ Parses(doc.expireAt)

\* C19: no request that sorts by expireAt is answered while a stored listing
\* still has a text expireAt that parses as a date, in every interleaving of
\* the start-up and the requests.
C19_SortedOnlyAfterNormalization ==
    [][\A sort \in {"asc", "desc"} :
          (ListAvailable(<<>>, sort) /\ last'.status = 200) =>
              ~\E d \in Stored : ParsableText(d)]_vars

\* C20: the normalization pass is best-effort: once the collections are
\* assigned, no failure on a record makes the server not ready or a request
\* fail; when the pass has ended, by completion or by a store error, the
\* server is ready and requests are answered normally; a listing whose text
\* does not parse is left exactly as it was.
C20_BestEffortNormalization ==
    [][/\ Admitted =>
            /\ Admitted'
            /\ last' # last => last'.status = 200
       /\ boot'.failed => boot'.phase = "ready"
       /\ (boot.phase = "normalizing" /\ boot'.todo = <<>>) => boot'.phase = "ready"
       /\ boot.phase = "ready" => boot' = boot
       /\ Len(foodCollection') = Len(foodCollection)
       /\ \A i \in 1..Len(foodCollection) :
             (HasTextExpireAt(foodCollection[i]) /\ ~ParsableText(foodCollection[i])) =>
                 foodCollection'[i] = foodCollection[i]]_vars

C20_Witness ==
    /\ boot.phase = "ready" /\ boot.failed
    /\ last.op = "listAvailable" /\ last.status = 200
    /\ Len(foodCollection) = 2
    /\ foodCollection[1].expireAt = Str(Soon)
    /\ ParsableText(foodCollection[2])

(***************************************************************************)
(* C21.  In part_002, however many requests arrive while the first         *)
(* initialization is under way, client.connect() is called at most once    *)
(* and the normalization pass is started at most once, and a request       *)
(* reaches its route handler (at once, or after awaiting dbInitPromise)    *)
(* only when both collection variables are assigned.                       *)
(***************************************************************************)
C21_InitOnce ==
    [][file = "part_002" =>
         /\ startup'.connects <= 1
         /\ startup'.passes <= 1
         /\ (last' # last /\ last'.op # "notReady") => CollectionsSet
         /\ startup'.resumed > startup.resumed => CollectionsSet]_vars

C21_Witness ==
    /\ file = "part_002"
    /\ startup.resumed >= 2
    /\ startup.connects = 1 /\ startup.passes = 1
    /\ last.op = "listAvailable" /\ last.status = 200

(***************************************************************************)
(* C22.  In part_002, once client.connect() has been rejected the failure  *)
(* stays: dbInitPromise remains rejected and the collection variables      *)
(* unassigned, connect is not called again, no request reaches a route     *)
(* handler or changes the store, and every answer given is the 503 of the  *)
(* readiness middleware.                                                   *)
(***************************************************************************)
C22_FailureIsPermanent ==
    [][(file = "part_002" /\ startup.failures > 0) =>
         /\ boot'.phase = "failed" /\ ~CollectionsSet'
         /\ startup'.connects = startup.connects
         /\ startup'.passes = startup.passes
         /\ startup'.resumed = startup.resumed
         /\ foodCollection' = foodCollection
         /\ requestCollection' = requestCollection
         /\ last' # last => (last'.op = "notReady" /\ last'.status = 503)]_vars

C22_Witness ==
    /\ file = "part_002"
    /\ boot.phase = "failed"
    /\ startup.failures = 1 /\ startup.connects = 1 /\ startup.passes = 0
    /\ startup.waiting = 0 /\ startup.resumed = 0
    /\ last.op = "notReady" /\ last.status = 503

====
